---------------------------- MODULE Spec2Model ----------------------------
(***************************************************************************)
(* Skinne Advisor (src/Skinne_Advisor.py): a Streamlit survey that builds  *)
(* a P-Score from the answers, ranks the treatment catalog by D-Score and  *)
(* offers the top 5 with a voucher code as a PDF.                          *)
(*                                                                         *)
(* One action is one run of the script (main), started by one user event.  *)
(* Python strings are sequences of one-character strings; None, as the     *)
(* value of a select box that shows "Select one option", is 0.             *)
(***************************************************************************)
EXTENDS Integers, Sequences, FiniteSets, TLC

\* ------------------------------------------------------------- bounds
MaxRows == 6         \* longest catalog drawn for the matcher
MaxSubmits == 2      \* Submit clicks followed in one session
MaxFilterRows == 4   \* longest frame drawn for filter_treatments
MaxLen == 4          \* longest score list drawn for calculate_d_score
MaxScore == 3        \* largest score drawn for calculate_d_score

\* ------------------------------------------------------- python strings
None == 0
Abs(x) == IF x < 0 THEN 0 - x ELSE x
Min(a, b) == IF a < b THEN a ELSE b
Range(s) == {s[i] : i \in DOMAIN s}

\* s[from:] with a 1-based first position
DropFirst(s, k) == SubSeq(s, k + 1, Len(s))

\* str.startswith
StartsWith(s, prefix) ==
    /\ Len(prefix) <= Len(s)
    /\ SubSeq(s, 1, Len(prefix)) = prefix

\* first position at which sep occurs in s, 0 when it does not
FindSep(s, sep) ==
    LET hits == {i \in 1..(Len(s) - Len(sep) + 1) :
                    SubSeq(s, i, i + Len(sep) - 1) = sep}
    IN IF hits = {} THEN 0 ELSE CHOOSE i \in hits : \A j \in hits : i <= j

\* str.split(sep) with an explicit separator
RECURSIVE Split(_, _)
Split(s, sep) ==
    LET i == FindSep(s, sep)
    IN IF i = 0 THEN <<s>>
       ELSE <<SubSeq(s, 1, i - 1)>> \o Split(DropFirst(s, i + Len(sep) - 1), sep)

\* str.strip(chars)
RECURSIVE LStrip(_, _)
LStrip(s, chars) ==
    IF s # <<>> /\ Head(s) \in chars THEN LStrip(Tail(s), chars) ELSE s

RECURSIVE RStrip(_, _)
RStrip(s, chars) ==
    IF s # <<>> /\ s[Len(s)] \in chars
    THEN RStrip(SubSeq(s, 1, Len(s) - 1), chars) ELSE s

Strip(s, chars) == RStrip(LStrip(s, chars), chars)

\* str.replace(ch, "")
Remove(s, ch) == SelectSeq(s, LAMBDA c : c # ch)

Whitespace == {" "}
DigitChars == {"0", "1", "2", "3", "4", "5", "6", "7", "8", "9"}
DigitValue(c) ==
    CASE c = "0" -> 0 [] c = "1" -> 1 [] c = "2" -> 2 [] c = "3" -> 3
      [] c = "4" -> 4 [] c = "5" -> 5 [] c = "6" -> 6 [] c = "7" -> 7
      [] c = "8" -> 8 [] c = "9" -> 9

RECURSIVE DigitsValue(_)
DigitsValue(s) ==
    IF s = <<>> THEN 0
    ELSE 10 * DigitsValue(SubSeq(s, 1, Len(s) - 1)) + DigitValue(s[Len(s)])

\* int(str) succeeds on an optional sign followed by digits
IsIntLiteral(s) ==
    LET body == IF s # <<>> /\ Head(s) \in {"-", "+"} THEN Tail(s) ELSE s
    IN body # <<>> /\ Range(body) \subseteq DigitChars

IntOf(s) ==
    IF Head(s) = "-" THEN 0 - DigitsValue(Tail(s))
    ELSE IF Head(s) = "+" THEN DigitsValue(Tail(s))
    ELSE DigitsValue(s)

\* f"{i + 1}) {option}"
DigitChar(n) ==
    CASE n = 1 -> "1" [] n = 2 -> "2" [] n = 3 -> "3" [] n = 4 -> "4" [] n = 5 -> "5"

Numbered(i, option) == <<DigitChar(i), ")", " ">> \o option

\* --------------------------------------------------------- data files
Acne == <<"A", "c", "n", "e">>
Pigmentation == <<"P", "i", "g", "m">>

\* questions.json: the primary concern question, then the general questions
questions ==
    << [question |-> "Q1", options |-> <<Acne, Pigmentation>>],
       [question |-> "Q2", options |-> << <<"a">>, <<"b">> >>],
       [question |-> "Q3", options |-> << <<"a">>, <<"b">> >>],
       [question |-> "Q4", options |-> << <<"a">>, <<"b">> >>],
       [question |-> "Q5", options |-> << <<"a">>, <<"b">> >>],
       [question |-> "Q6", options |-> << <<"n", "o">>, <<"o", "k">> >>] >>

\* concerns.json: primary concern -> specific interests, "<code> <text>"
concerns ==
    [c \in {Acne, Pigmentation} |->
        IF c = Acne
        THEN << <<"A", " ", "x">>, <<"A", "1", " ", "y">> >>
        ELSE << <<"B", "1", " ", "z">>, <<"Z", " ", "w">> >>]

\* dict.get(key, default)
Get(d, key, default) == IF key \in DOMAIN d THEN d[key] ELSE default

\* d[key] = value
Put(d, key, value) ==
    [k \in DOMAIN d \cup {key} |-> IF k = key THEN value ELSE d[k]]

GeneralIndexes == 2..Len(questions)      \* questions[1:]

\* the workbook: an empty cell is NaN, written <<>>
NaN == <<>>
SheetNames == {"Non-injectable", "All treatments"}

\* str(list) as the sheet stores a T-Score: "['A1', 2, 1]"
RECURSIVE JoinTokens(_)
JoinTokens(toks) ==
    IF toks = <<>> THEN <<>>
    ELSE <<",", " ">> \o Head(toks) \o JoinTokens(Tail(toks))

TScoreText(code, toks) == <<"[", "'">> \o code \o <<"'">> \o JoinTokens(toks) \o <<"]">>

\* the kinds of catalog row the model draws from
RowKinds ==
    << [cc |-> <<"A", "1">>, inj |-> "Non-injectable",
        T |-> TScoreText(<<"A", "1">>, << <<"1">>, <<"1">>, <<"1">>, <<"1">>, <<"1">> >>)],
       [cc |-> <<"A">>, inj |-> "Injectable",
        T |-> TScoreText(<<"A">>, << <<"2">>, <<"1">>, <<"1">>, <<"1">>, <<"1">> >>)],
       [cc |-> <<"B", "1">>, inj |-> "Non-injectable",
        T |-> TScoreText(<<"B", "1">>, << <<"1">>, <<"x">>, <<"1">>, <<"1">>, <<"1">> >>)],
       [cc |-> NaN, inj |-> "Non-injectable",
        T |-> TScoreText(<<"A", "1">>, << <<"2">>, <<"1">>, <<"1">>, <<"1">>, <<"1">> >>)],
       [cc |-> <<"A", "1">>, inj |-> "Injectable",
        T |-> TScoreText(<<"A", "1">>, << <<"1">> >>)],
       [cc |-> <<"A", "2", "3">>, inj |-> "Non-injectable",
        T |-> TScoreText(<<"A", "2", "3">>, << <<"1">>, <<"2">>, <<"1">>, <<"1">>, <<"1">> >>)] >>

Kinds == DOMAIN RowKinds

\* the rows of a catalog given as a sequence of kinds; the treatment name is
\* the row's position in the full listing
RowsOf(kinds) ==
    [i \in DOMAIN kinds |->
        [name |-> i, cc |-> RowKinds[kinds[i]].cc, inj |-> RowKinds[kinds[i]].inj,
         T |-> RowKinds[kinds[i]].T]]

\* the workbook's sheets for one listing, given as its rows' kinds: every
\* treatment is on "All treatments", the non-injectable ones on "Non-injectable"
SheetOf(kinds, sheet_name) ==
    IF sheet_name = "All treatments" THEN RowsOf(kinds)
    ELSE SelectSeq(RowsOf(kinds), LAMBDA r : r.inj = "Non-injectable")

\* ------------------------------------------------------------- state
VARIABLES
    workbook,      \* the Excel file, as the kinds of the rows it lists
    widgets,       \* the select boxes' values: primary, specific, general
    responses,     \* st.session_state.responses
    final_table,   \* st.session_state["final_table"]
    voucher_code,  \* st.session_state["voucher_code"]
    submits,       \* Submit clicks so far
    shown,         \* what the last run of the script put on the page
    call           \* the last direct call of a matcher function and its result

vars == <<workbook, widgets, responses, final_table, voucher_code, submits, shown, call>>

\* ------------------------------------------------------------ survey
SelectOne ==
    <<"S", "e", "l", "e", "c", "t", " ", "o", "n", "e", " ",
      "o", "p", "t", "i", "o", "n">>

\* [f"{i + 1}) {option}" for i, option in enumerate(options)]
NumberedOptions(options) == [i \in DOMAIN options |-> Numbered(i, options[i])]

\* what st.selectbox returns for the entry the user has selected (0: the first)
Selectbox(options, selected) == (<<SelectOne>> \o options)[selected + 1]

\* int(response.split(")")[0])
ChoiceNumber(response) == IntOf(Split(response, <<")">>)[1])

render_question(question_data, selected) ==
    LET numbered_options == NumberedOptions(question_data.options)
        response == Selectbox(numbered_options, selected)
    IN IF response # SelectOne THEN ChoiceNumber(response) ELSE None

\* the loop over questions[1:], from the question at position k on
RECURSIVE RenderGeneral(_, _, _)
RenderGeneral(resp, w, k) ==
    IF k > Len(questions) THEN resp
    ELSE LET response == render_question(questions[k], w.general[k])
             r1 == IF response # None
                   THEN Put(resp, questions[k].question, response) ELSE resp
             r2 == IF k = 6 THEN Put(r1, "Delivery Mode", response) ELSE r1
         IN RenderGeneral(r2, w, k + 1)

render_survey(resp, w) ==
    LET primary_concern_index == render_question(questions[1], w.primary)
        primary_concern == questions[1].options[primary_concern_index]
        r1 == IF primary_concern_index # None
              THEN Put(resp, "Primary Concern", primary_concern) ELSE resp
        specific_options == Get(concerns, primary_concern, <<>>)
        numbered_specific_options == NumberedOptions(specific_options)
        specific_choice == Selectbox(numbered_specific_options, w.specific)
        r2 == IF primary_concern_index # None /\ specific_choice # SelectOne
              THEN Put(r1, "Specific Interest",
                       numbered_specific_options[ChoiceNumber(specific_choice)])
              ELSE r1
    IN RenderGeneral(r2, w, 2)

extract_concern_code(specific_interest) ==
    IF specific_interest # <<>> /\ Len(Split(specific_interest, <<" ">>)) > 1
    THEN Split(specific_interest, <<" ">>)[2]
    ELSE <<>>

generate_voucher_code(n) == n

\* ----------------------------------------------------------- matcher
Ok(v) == [raised |-> "", value |-> v]
Raise(msg) == [raised |-> msg, value |-> <<>>]

\* safe_int_conversion of convert_t_score: int(value.strip()), -1 on ValueError
safe_int_conversion(value) ==
    IF IsIntLiteral(Strip(value, Whitespace)) THEN IntOf(Strip(value, Whitespace))
    ELSE 0 - 1

convert_t_score(t_score_str) ==
    IF t_score_str = NaN
    THEN Raise("Input must be a non-empty string representing a T-Score.")
    ELSE LET elements ==
                 Split(Remove(Strip(t_score_str, {"[", "]"}), "'"), <<",", " ">>)
         IN Ok(<<elements[1]>> \o
               [i \in 1..(Len(elements) - 1) |-> safe_int_conversion(elements[i + 1])])

\* filter_treatments with == in place of str.startswith
filter_treatments_exact(data, concern_code) ==
    LET filtered_data == SelectSeq(data, LAMBDA r : r.cc = concern_code)
    IN IF filtered_data = <<>>
       THEN Raise("No treatments found for Concern Code")
       ELSE Ok(filtered_data)

filter_treatments(data, concern_code) ==
    IF data = <<>>
    THEN Raise("Input data must be a non-empty Pandas DataFrame.")
    ELSE IF Strip(concern_code, Whitespace) = <<>>
    THEN Raise("Concern Code must be a non-empty string.")
    ELSE LET present == SelectSeq(data, LAMBDA r : r.cc # NaN)
             filtered_data ==
                 SelectSeq(present, LAMBDA r : StartsWith(r.cc, concern_code))
         IN IF filtered_data = <<>>
            THEN Raise("No treatments found for Concern Code")
            ELSE Ok(filtered_data)

\* sum(abs(p - int(t)) for p, t in zip(ps, ts))
RECURSIVE SumAbsDiff(_, _)
SumAbsDiff(ps, ts) ==
    IF ps = <<>> \/ ts = <<>> THEN 0
    ELSE Abs(Head(ps) - Head(ts)) + SumAbsDiff(Tail(ps), Tail(ts))

\* calculate_d_score without abs()
RECURSIVE SumDiff(_, _)
SumDiff(ps, ts) ==
    IF ps = <<>> \/ ts = <<>> THEN 0
    ELSE (Head(ps) - Head(ts)) + SumDiff(Tail(ps), Tail(ts))

calculate_d_score_signed(p_score, t_score) ==
    IF Len(p_score) # Len(t_score)
    THEN Raise("p_score and t_score must have the same length.")
    ELSE IF Len(p_score) <= 1 \/ Len(t_score) <= 1
    THEN Raise("p_score and t_score must contain at least one scoring element beyond the first identifier.")
    ELSE Ok(SumDiff(Tail(p_score), Tail(t_score)))

\* calculate_d_score without its length check: zip stops at the shorter list
calculate_d_score_unchecked(p_score, t_score) ==
    IF Len(p_score) <= 1 \/ Len(t_score) <= 1
    THEN Raise("p_score and t_score must contain at least one scoring element beyond the first identifier.")
    ELSE Ok(SumAbsDiff(Tail(p_score), Tail(t_score)))

calculate_d_score(p_score, t_score) ==
    IF Len(p_score) # Len(t_score)
    THEN Raise("p_score and t_score must have the same length.")
    ELSE IF Len(p_score) <= 1 \/ Len(t_score) <= 1
    THEN Raise("p_score and t_score must contain at least one scoring element beyond the first identifier.")
    ELSE Ok(SumAbsDiff(Tail(p_score), Tail(t_score)))

\* DataFrame.nsmallest(n, "D-Score"), keep="first": a stable ascending sort
\* by D-Score, then the first n rows
\* an insertion that puts a row before the rows of the same D-Score
RECURSIVE InsertByD_unstable(_, _)
InsertByD_unstable(sorted, r) ==
    IF sorted = <<>> THEN <<r>>
    ELSE IF Head(sorted).D < r.D
    THEN <<Head(sorted)>> \o InsertByD_unstable(Tail(sorted), r)
    ELSE <<r>> \o sorted

RECURSIVE InsertByD(_, _)
InsertByD(sorted, r) ==
    IF sorted = <<>> THEN <<r>>
    ELSE IF Head(sorted).D <= r.D THEN <<Head(sorted)>> \o InsertByD(Tail(sorted), r)
    ELSE <<r>> \o sorted

RECURSIVE SortByD(_)
SortByD(rows) ==
    IF rows = <<>> THEN <<>>
    ELSE InsertByD(SortByD(SubSeq(rows, 1, Len(rows) - 1)), rows[Len(rows)])

\* DataFrame.head(n) in place of nsmallest
nsmallest_unsorted(n, rows) == SubSeq(rows, 1, Min(n, Len(rows)))

nsmallest(n, rows) == SubSeq(SortByD(rows), 1, Min(n, Len(rows)))

TopN == 5

\* load_data: the sheet's rows, an empty frame when the sheet cannot be read
load_data(wb, sheet_name) == SheetOf(wb, sheet_name)

\* what one call of recommend_treatments did: the st.error messages, the
\* exception it raised (if any), and the table it saved to the session state
Result(errors, raised, stored, table) ==
    [errors |-> errors, raised |-> raised, stored |-> stored, table |-> table]

\* the first exception a column-wise apply runs into
FirstRaised(results) ==
    LET bad == {i \in DOMAIN results : results[i].raised # ""}
    IN results[CHOOSE i \in bad : \A j \in bad : i <= j].raised

AnyRaised(results) == \E i \in DOMAIN results : results[i].raised # ""

\* final_table = top_recommendations[columns_to_display]
columns_to_display(top_recommendations) ==
    [i \in DOMAIN top_recommendations |->
        [name |-> top_recommendations[i].name, inj |-> top_recommendations[i].inj]]

\* recommend_treatments from "st.session_state["final_table"] = final_table" on
SaveAndShow(table) ==
    IF table # <<>>
    THEN Result({}, "", TRUE, table)
    ELSE Result({"No matching treatments found after filtering and scoring."},
                "", TRUE, table)

\* recommend_treatments once filter_treatments has been called
SelectTop(filtered_data) ==
    IF filtered_data.raised # ""
    THEN Result({}, filtered_data.raised, FALSE, <<>>)
    ELSE IF filtered_data.value = <<>>
    THEN Result({"No treatments found for the Concern Code."}, "", FALSE, <<>>)
    ELSE SaveAndShow(columns_to_display(nsmallest(TopN, filtered_data.value)))

\* the frame with its T-Score column converted and its D-Score column added
Scored(data, t_scores, d_scores) ==
    [i \in DOMAIN data |->
        [name |-> data[i].name, cc |-> data[i].cc, inj |-> data[i].inj,
         T |-> t_scores[i].value, D |-> d_scores[i].value]]

\* data["D-Score"] = data.apply(calculate_d_score ...), then the filter
FilterScored(p_score, data, t_scores, d_scores) ==
    IF AnyRaised(d_scores)
    THEN Result({}, FirstRaised(d_scores), FALSE, <<>>)
    ELSE SelectTop(filter_treatments(Scored(data, t_scores, d_scores), p_score[1]))

\* data["T-Score"] = data["T-Score"].apply(convert_t_score), then the D-Scores
ScoreConverted(p_score, data, t_scores) ==
    IF AnyRaised(t_scores)
    THEN Result({}, FirstRaised(t_scores), FALSE, <<>>)
    ELSE FilterScored(p_score, data, t_scores,
                      [i \in DOMAIN data |->
                          calculate_d_score(p_score, t_scores[i].value)])

\* recommend_treatments once the sheet has been loaded
RecommendFrom(p_score, data) ==
    IF data = <<>>
    THEN Result({"Unable to load data from the sheet."}, "", FALSE, <<>>)
    ELSE IF p_score[1] = <<>>
    THEN Result({"Invalid concern code extracted."}, "", FALSE, <<>>)
    ELSE ScoreConverted(p_score, data,
                        [i \in DOMAIN data |-> convert_t_score(data[i].T)])

\* the sheet an injectable preference selects; "" when it selects none
SheetFor(injectable_preference) ==
    IF injectable_preference = 1 THEN "Non-injectable"
    ELSE IF injectable_preference = 2 THEN "All treatments"
    ELSE ""

recommend_treatments(p_score, resp, wb) ==
    IF SheetFor(Get(resp, "Delivery Mode", None)) = ""
    THEN Result({"Invalid selection for injectable preference."}, "", FALSE, <<>>)
    ELSE RecommendFrom(p_score,
                       load_data(wb, SheetFor(Get(resp, "Delivery Mode", None))))

\* what one call of display_p_score did: recommend_treatments' result, and
\* whether it went on to generate a voucher code and to show st.success
Outcome(r, voucher) ==
    [errors |-> r.errors, raised |-> r.raised, stored |-> r.stored,
     table |-> r.table, voucher |-> voucher, success |-> voucher]

NoCall == Outcome(Result({}, "", FALSE, <<>>), FALSE)

\* display_p_score from the call of recommend_treatments on: an exception
\* leaves the function, a return goes on to the voucher code
RecommendThenVoucher(r) == Outcome(r, r.raised = "")

\* the P-Score: the concern code, then the answers, 1 for a missing one
PScore(specific_interest_code, resp) ==
    <<specific_interest_code>> \o
    [i \in 1..(Len(questions) - 1) |-> Get(resp, questions[i + 1].question, 1)]

\* display_p_score once the P-Score has been built
SubmitScores(scores, resp, wb) ==
    IF Len(scores) # Len(questions)
    THEN Outcome(Result({"Incomplete data."}, "", FALSE, <<>>), FALSE)
    ELSE RecommendThenVoucher(recommend_treatments(scores, resp, wb))

\* display_p_score once the concern code has been extracted
SubmitCode(specific_interest_code, resp, wb) ==
    IF questions = <<>>
    THEN Outcome(Result({"Questions data is missing or improperly formatted."},
                        "", FALSE, <<>>), FALSE)
    ELSE IF specific_interest_code = <<>>
    THEN Outcome(Result({"Specific Interest Code is invalid or missing."},
                        "", FALSE, <<>>), FALSE)
    ELSE SubmitScores(PScore(specific_interest_code, resp), resp, wb)

display_p_score(resp, wb) ==
    SubmitCode(extract_concern_code(Get(resp, "Specific Interest", <<>>)), resp, wb)

\* the PDF's rows: the table, then the voucher row ("N/A" without a voucher)
generate_pdf_from_dataframe(df, voucher) ==
    [built |-> TRUE, rows |-> df.rows, by |-> df.by, voucher |-> voucher]

NoPdf == [built |-> FALSE, rows |-> <<>>, by |-> 0, voucher |-> [present |-> FALSE, code |-> 0]]

\* main after the Submit branch: the download section, skipped by an exception
Page(d, table, voucher) ==
    [errors |-> d.errors, exception |-> d.raised,
     table |-> d.stored /\ d.table # <<>>, success |-> d.success,
     pdf |-> IF d.raised = "" /\ table.present
             THEN generate_pdf_from_dataframe(table, voucher)
             ELSE NoPdf]

\* the session state and the page after a run in which display_p_score did d
\* (NoCall: Submit was not clicked); n numbers this run's submission
Finish(w, resp, submit, n, d) ==
    /\ widgets' = w
    /\ responses' = resp
    /\ final_table' = IF d.stored THEN [present |-> TRUE, rows |-> d.table, by |-> n]
                      ELSE final_table
    /\ voucher_code' = IF d.voucher
                       THEN [present |-> TRUE, code |-> generate_voucher_code(n)]
                       ELSE voucher_code
    /\ submits' = IF submit THEN n ELSE submits
    /\ shown' = Page(d, final_table', voucher_code')
    /\ UNCHANGED <<workbook, call>>

AfterSurvey(w, resp, submit) ==
    Finish(w, resp, submit, submits + 1,
           IF submit THEN display_p_score(resp, workbook) ELSE NoCall)

\* one run of the script: the new widget values w, and whether Submit was clicked
main(w, submit) == AfterSurvey(w, render_survey(responses, w), submit)

\* ---------------------------------------------------------- user events
NoWidgets == [primary |-> 0, specific |-> 0, general |-> [k \in GeneralIndexes |-> 0]]
NoTable == [present |-> FALSE, rows |-> <<>>, by |-> 0]
NoVoucher == [present |-> FALSE, code |-> 0]
NothingShown == [errors |-> {}, exception |-> "", table |-> FALSE, success |-> FALSE,
                 pdf |-> NoPdf]
NoDirectCall == [fn |-> "", args |-> <<>>, result |-> Ok(<<>>)]

\* the specific-interest options the page offers for a value of the primary box
OfferedOptions(primary) ==
    IF primary = 0 THEN <<>> ELSE Get(concerns, questions[1].options[primary], <<>>)

\* the user picks entry i of the primary concern box; the specific-interest
\* box is a new widget, showing its first entry, unless its options are the same
SelectPrimary(i) ==
    /\ i \in 0..Len(questions[1].options)
    /\ i # widgets.primary
    /\ main([widgets EXCEPT !.primary = i,
                            !.specific = IF /\ i # 0
                                            /\ widgets.primary # 0
                                            /\ OfferedOptions(i) = OfferedOptions(widgets.primary)
                                         THEN @ ELSE 0],
            FALSE)

SelectSpecific(j) ==
    /\ widgets.primary # 0
    /\ j \in 0..Len(OfferedOptions(widgets.primary))
    /\ j # widgets.specific
    /\ main([widgets EXCEPT !.specific = j], FALSE)

SelectGeneral(k, v) ==
    /\ k \in GeneralIndexes
    /\ v \in 0..Len(questions[k].options)
    /\ v # widgets.general[k]
    /\ main([widgets EXCEPT !.general[k] = v], FALSE)

Submit ==
    /\ submits < MaxSubmits
    /\ main(widgets, TRUE)

\* a click on the download button reruns the script
Download ==
    /\ shown.pdf.built
    /\ main(widgets, FALSE)

\* the general questions the user of a followed session answers or clears;
\* the others stay at "Select one option"
Touched == {2, 6}

\* the workbooks a session is followed with
SessionListings ==
    { <<1, 2, 3, 1, 2, 4, 1, 2>>,     \* both sheets load and match
      <<2, 2, 2>>,                    \* no non-injectable rows: that sheet is empty
      <<1, 5, 3>> }                   \* one T-Score is too short

Init ==
    /\ workbook \in SessionListings
    /\ widgets = NoWidgets
    /\ responses = <<>>
    /\ final_table = NoTable
    /\ voucher_code = NoVoucher
    /\ submits = 0
    /\ shown = NothingShown
    /\ call = NoDirectCall

Next ==
    \/ \E i \in 0..Len(questions[1].options) : SelectPrimary(i)
    \/ \E j \in 0..2 : SelectSpecific(j)
    \/ \E k \in Touched, v \in 0..2 : SelectGeneral(k, v)
    \/ Submit
    \/ Download

Spec == Init /\ [][Next]_vars

\* ------------------------------------------------- the matcher alone
\* every listing of at most n rows of the given kinds
Listings(kinds, n) == UNION {[1..k -> kinds] : k \in 0..n}

\* a session in which the survey has been filled in: the first specific
\* interest of the first concern (code "A"), the second option of the second
\* question, and either delivery mode
FilledIn ==
    {[primary |-> 1, specific |-> 1,
      general |-> [k \in GeneralIndexes |->
                      IF k = 2 THEN 2 ELSE IF k = 6 THEN d ELSE 0]] : d \in 1..2}

\* the kinds the matcher's listings are drawn from
MatchKinds == {1, 2, 4, 5}

InitMatch ==
    /\ workbook \in Listings(MatchKinds, MaxRows)
    /\ widgets \in FilledIn
    /\ responses = render_survey(<<>>, widgets)
    /\ final_table = NoTable
    /\ voucher_code = NoVoucher
    /\ submits = 0
    /\ shown = NothingShown
    /\ call = NoDirectCall

SpecMatch == InitMatch /\ [][Submit]_vars

\* the concern codes the concern map's options carry
ConcernCodes ==
    {extract_concern_code(Numbered(i, concerns[c][i])) :
        c \in DOMAIN concerns, i \in 1..2}

\* a direct call of filter_treatments on a sheet of the workbook
CallFilter(sheet_name, concern_code) ==
    /\ load_data(workbook, sheet_name) # <<>>
    /\ call' = [fn |-> "filter_treatments",
                args |-> <<load_data(workbook, sheet_name), concern_code>>,
                result |-> filter_treatments(load_data(workbook, sheet_name),
                                             concern_code)]
    /\ UNCHANGED <<workbook, widgets, responses, final_table, voucher_code,
                   submits, shown>>

InitFilter ==
    /\ workbook \in Listings(Kinds, MaxFilterRows)
    /\ widgets = NoWidgets
    /\ responses = <<>>
    /\ final_table = NoTable
    /\ voucher_code = NoVoucher
    /\ submits = 0
    /\ shown = NothingShown
    /\ call = NoDirectCall

\* one call is followed for each frame drawn
NextFilter ==
    /\ call.fn = ""
    /\ \E sheet_name \in SheetNames, code \in ConcernCodes :
          CallFilter(sheet_name, code)

SpecFilter == InitFilter /\ [][NextFilter]_vars

\* score lists: an identifier, then up to MaxLen - 1 scores
ScoreLists(scores) ==
    UNION {{<<<<"A", "1">>>> \o tail : tail \in [1..k -> scores]} : k \in 0..(MaxLen - 1)}

\* a direct call of calculate_d_score
CallDScore(p_score, t_score) ==
    /\ call' = [fn |-> "calculate_d_score", args |-> <<p_score, t_score>>,
                result |-> calculate_d_score(p_score, t_score)]
    /\ UNCHANGED <<workbook, widgets, responses, final_table, voucher_code,
                   submits, shown>>

InitDScore ==
    /\ workbook = <<>>
    /\ widgets = NoWidgets
    /\ responses = <<>>
    /\ final_table = NoTable
    /\ voucher_code = NoVoucher
    /\ submits = 0
    /\ shown = NothingShown
    /\ call = NoDirectCall

\* answers are 1..MaxScore; a converted T-Score may also hold the sentinel -1;
\* one call is followed
NextDScore ==
    /\ call.fn = ""
    /\ \E p_score \in ScoreLists(1..MaxScore),
          t_score \in ScoreLists((1..MaxScore) \cup {0 - 1}) :
             CallDScore(p_score, t_score)

SpecDScore == InitDScore /\ [][NextDScore]_vars

\* ------------------------------------------------------ session claims
\* the failures the failure policy lists, as the page reports them
ListedErrors ==
    {"Questions data is missing or improperly formatted.",
     "Specific Interest Code is invalid or missing.",
     "Unable to load data from the sheet.",
     "No treatments found for the Concern Code."}

ListedExceptions ==
    {"p_score and t_score must have the same length.",
     "No treatments found for Concern Code"}

ListedFailure(page) ==
    page.errors \cap ListedErrors # {} \/ page.exception \in ListedExceptions

\* C1: a submission that fails for one of the listed reasons shows no results:
\* the run that handles it, and the run after it (unless that is another
\* submission), display no recommendation table and build no PDF.
C1_FailedSubmissionShowsNoResults ==
    [][ ( \/ submits' = submits + 1 /\ ListedFailure(shown')
          \/ submits' = submits /\ submits > 0 /\ ListedFailure(shown) )
        => (~shown'.table /\ ~shown'.pdf.built) ]_vars

\* C2: a voucher code is stored, and the success message shown, only by a
\* submission that stored a recommendation table; any other run leaves
\* voucher_code unchanged and shows no success message.
C2_VoucherOnlyOnSuccess ==
    [][ (voucher_code' # voucher_code \/ shown'.success)
        => (submits' = submits + 1 /\ final_table'.present
            /\ final_table'.by = submits') ]_vars

\* C8: at a Submit for which a P-Score is built, every general question that
\* shows "Select one option" contributes 1 to the P-Score, and the submission is
\* not rejected for a missing answer (the sixth question included).
C8_UnansweredDefaultsToOne ==
    [][ (/\ submits' = submits + 1
         /\ extract_concern_code(Get(responses', "Specific Interest", <<>>)) # <<>>)
        => \A k \in GeneralIndexes :
              widgets'.general[k] = 0
              => /\ PScore(extract_concern_code(responses'["Specific Interest"]),
                           responses')[k] = 1
                 /\ "Invalid selection for injectable preference." \notin shown'.errors
      ]_vars

\* C9: whenever responses holds both a primary concern and a specific
\* interest, the specific interest is one of the (numbered) options the concern
\* map lists for that primary concern.
C9_CascadeConsistent ==
    ({"Primary Concern", "Specific Interest"} \subseteq DOMAIN responses)
    => \E i \in DOMAIN concerns[responses["Primary Concern"]] :
          responses["Specific Interest"]
              = Numbered(i, concerns[responses["Primary Concern"]][i])

\* C10: every PDF carries a voucher code (never "N/A"), and that code was
\* generated by the submission that stored the table the PDF shows.
C10_PdfPairsTableWithItsVoucher ==
    shown.pdf.built
    => (shown.pdf.voucher.present /\ shown.pdf.voucher.code = shown.pdf.by)

\* ------------------------------------------------------ matcher claims
\* the P-Score a Submit builds from the session's responses
SubmittedPScore ==
    PScore(extract_concern_code(Get(responses, "Specific Interest", <<>>)), responses)

\* the sheet a Submit loads
LoadedSheet == load_data(workbook, SheetFor(Get(responses, "Delivery Mode", None)))

\* code is a prefix of cc, position by position
HasPrefix(cc, code) ==
    Len(code) <= Len(cc) /\ \A i \in 1..Len(code) : cc[i] = code[i]

\* the sum over positions 2..n of |p[i] - t[i]|
RECURSIVE TailDistance(_, _, _)
TailDistance(p, t, n) ==
    IF n < 2 THEN 0
    ELSE (IF p[n] >= t[n] THEN p[n] - t[n] ELSE t[n] - p[n]) + TailDistance(p, t, n - 1)

\* the rows of the loaded sheet that pass the concern-code filter
Passing ==
    {i \in DOMAIN LoadedSheet :
        LoadedSheet[i].cc # NaN /\ HasPrefix(LoadedSheet[i].cc, SubmittedPScore[1])}

\* the D-Score of row i of the loaded sheet
Distance(i) ==
    TailDistance(SubmittedPScore, convert_t_score(LoadedSheet[i].T).value,
                 Len(SubmittedPScore))

\* where the rows of the stored table stand in the loaded sheet
TablePositions ==
    [k \in DOMAIN final_table.rows |->
        CHOOSE i \in DOMAIN LoadedSheet : LoadedSheet[i].name = final_table.rows[k].name]

Excluded == Passing \ Range(TablePositions)

\* C3: the stored table holds min(5, rows passing the filter) of the passing
\* rows, in non-decreasing D-Score order, and no passing row left out has a
\* D-Score strictly smaller than a row in the table.
C3_TopFiveSmallestSorted ==
    final_table.present
    => /\ Len(final_table.rows)
            = (IF Cardinality(Passing) < 5 THEN Cardinality(Passing) ELSE 5)
       /\ Range(TablePositions) \subseteq Passing
       /\ Cardinality(Range(TablePositions)) = Len(final_table.rows)
       /\ \A k, l \in DOMAIN TablePositions :
             k < l => Distance(TablePositions[k]) <= Distance(TablePositions[l])
       /\ \A i \in Excluded, k \in DOMAIN TablePositions :
             ~(Distance(i) < Distance(TablePositions[k]))

\* a table of 5 rows cut from more than 5 passing rows that stand in the sheet
\* out of D-Score order, a left-out row having a larger D-Score
C3_Witness ==
    /\ final_table.present
    /\ Len(final_table.rows) = 5
    /\ Cardinality(Passing) > 5
    /\ \E i, j \in Passing : i < j /\ Distance(i) > Distance(j)
    /\ \E i \in Excluded : Distance(i) > Distance(TablePositions[5])

\* the length-mismatch exception of calculate_d_score
LengthError == Raise("p_score and t_score must have the same length.")

\* the rows of the loaded sheet whose converted T-Score is not as long as the P-Score
Mismatched ==
    {i \in DOMAIN LoadedSheet :
        Len(convert_t_score(LoadedSheet[i].T).value) # Len(SubmittedPScore)}

\* C4: for a P-Score and a T-Score of different lengths calculate_d_score
\* raises its length error and returns no distance; a submission whose sheet
\* holds such a row ends in that exception, and no table is stored or shown.
C4_LengthMismatchIsAnError ==
    /\ \A i \in Mismatched :
          calculate_d_score(SubmittedPScore,
                            convert_t_score(LoadedSheet[i].T).value).raised
              = LengthError.raised
    /\ (submits > 0 /\ Mismatched # {})
       => /\ shown.exception = LengthError.raised
          /\ ~final_table.present
          /\ ~shown.table
          /\ ~shown.pdf.built

\* a submission over a sheet whose other rows match and would have filled a table
C4_Witness ==
    /\ submits > 0
    /\ Mismatched # {}
    /\ Passing \ Mismatched # {}
    /\ shown.exception = LengthError.raised

\* C5: filter_treatments returns exactly the rows whose concern code is present
\* and starts with the code, in their original order; when there is none it
\* raises "No treatments found" and returns nothing.
C5_PrefixFilter ==
    call.fn = "filter_treatments"
    => LET data == call.args[1]
           code == call.args[2]
           keep == {i \in DOMAIN data : data[i].cc # NaN /\ HasPrefix(data[i].cc, code)}
           out == call.result.value
       IN IF keep = {}
          THEN call.result = Raise("No treatments found for Concern Code")
          ELSE /\ call.result.raised = ""
               /\ Len(out) = Cardinality(keep)
               /\ Range(out) = {data[i] : i \in keep}
               /\ \A k, l \in DOMAIN out : k < l => out[k].name < out[l].name

\* code "A" over rows coded "A", "A1", "A23", "B1" and a row without a code
C5_Witness ==
    /\ call.fn = "filter_treatments"
    /\ call.args[2] = <<"A">>
    /\ {<<"A">>, <<"A", "1">>, <<"A", "2", "3">>, <<"B", "1">>}
           \subseteq {call.args[1][i].cc : i \in DOMAIN call.args[1]}
    /\ {call.result.value[i].cc : i \in DOMAIN call.result.value}
           = {<<"A">>, <<"A", "1">>, <<"A", "2", "3">>}

\* C6: for lists of equal length (at least 2) calculate_d_score returns the
\* sum over the positions after the identifier of |p[i] - t[i]|; it is >= 0, and
\* 0 exactly when the lists agree at every such position.
C6_ManhattanDistance ==
    (/\ call.fn = "calculate_d_score"
     /\ Len(call.args[1]) = Len(call.args[2])
     /\ Len(call.args[1]) >= 2)
    => LET p == call.args[1]
           t == call.args[2]
       IN /\ call.result.raised = ""
          /\ call.result.value = TailDistance(p, t, Len(p))
          /\ call.result.value >= 0
          /\ (call.result.value = 0) <=> (\A i \in 2..Len(p) : p[i] = t[i])

\* ["A1", 2, 3, 1] against ["A1", 2, 1, 1] gives 2
C6_Witness ==
    /\ call.fn = "calculate_d_score"
    /\ call.args = << <<<<"A", "1">>, 2, 3, 1>>, <<<<"A", "1">>, 2, 1, 1>> >>
    /\ call.result = Ok(2)

\* the tie rule: of two passing rows of equal D-Score the one earlier in the
\* sheet comes first in the table, and is the one kept when only one fits
TieRule ==
    /\ \A k, l \in DOMAIN TablePositions :
          (k < l /\ Distance(TablePositions[k]) = Distance(TablePositions[l]))
          => TablePositions[k] < TablePositions[l]
    /\ \A i \in Excluded, k \in DOMAIN TablePositions :
          Distance(i) = Distance(TablePositions[k]) => TablePositions[k] < i

\* C7: ties are broken by the rows' order in the loaded sheet, and a second
\* submission of the same answers over the same sheet stores the same rows.
C7_TiesByRowOrder ==
    /\ [](final_table.present => TieRule)
    /\ [][ (final_table.present /\ final_table'.present)
           => final_table'.rows = final_table.rows ]_vars

\* a second submission whose table holds two rows of equal D-Score and leaves
\* out a row that ties with its last row
C7_Witness ==
    /\ submits = 2
    /\ final_table.present
    /\ final_table.by = 2
    /\ \E k, l \in DOMAIN TablePositions :
          k < l /\ Distance(TablePositions[k]) = Distance(TablePositions[l])
    /\ \E i \in Excluded : Distance(i) = Distance(TablePositions[5])
    /\ \E i, j \in Passing : i < j /\ Distance(i) > Distance(j)
=============================================================================
